---- MODULE Spec2Model ----
(***************************************************************************)
(* AVLTree<T, Comparator>: an AVL tree with order statistics.              *)
(*                                                                         *)
(* Nodes live in a heap of cells addressed by 1..MaxInserts; NULL is the   *)
(* null pointer.  T is a pair <<key, tag>>; the comparator orders by key   *)
(* only, so the tag is a field the comparator ignores.  The callers tag    *)
(* the element of the n-th insert call with n, which makes every stored    *)
(* element distinguishable and its tag its place in the insertion order.   *)
(*                                                                         *)
(* Each function of the class is an operator from the heap (and the other  *)
(* arguments) to what the function leaves and returns; the actions are the *)
(* public calls.  The properties apply the operators of the public calls   *)
(* to every reachable state, for every argument.                           *)
(*                                                                         *)
(* Specifications:                                                         *)
(*   Spec           insert, remove and get_Kth on one AVLTree              *)
(*   SpecTeardown   the same, ended by the destructor                      *)
(*   SpecAscending  distinct keys inserted in ascending order              *)
(*   SpecRotate     rotate_left and rotate_right on their own              *)
(*   SpecHash       HashTable<std::string, hash<A>>: insert, erase, has    *)
(*   SpecBinaryTree BinaryTree<T, Comparator>: insert, get_depth, ~BinaryTree *)
(*   SpecTreap      Treap<T, P, ...>: insert and get_depth                 *)
(* A specification leaves the variables of the other container at their    *)
(* initial values; the trees share heap and root, one tree per behaviour.  *)
(***************************************************************************)
EXTENDS Integers, Sequences, FiniteSets

\* ----------------------------------------------------------------- bounds
MaxInserts == 4        \* insert calls per behaviour (also the cells of the heap)
MaxKey == 3            \* keys are 1..MaxKey
MaxAscending == 10     \* insert calls of an ascending run (and the cells of its heap)
MaxAscKey == 11        \* the keys of an ascending run are 1..MaxAscKey
MaxStale == 1          \* the fields a rotation overwrites start anywhere in 0..MaxStale
MaxChar == 4           \* HashTable keys are the one-character strings <<1>>..<<MaxChar>>
MaxCapacity == 4       \* initial capacities of a HashTable are 1..MaxCapacity
MaxPriority == 2       \* Treap priorities are 1..MaxPriority
LoadDen == 4           \* max_load_factor is one of 1/LoadDen .. LoadDen/LoadDen

\* ------------------------------------------------------------------ types
NULL == 0
Addr == 1..MaxInserts
Keys == 1..MaxKey
NoValue == <<0, 0>>                      \* "no T was produced"
AnyT == Keys \X (0..MaxInserts)          \* the values a T object can hold
UCharMod == 256                          \* unsigned char depth

FreeCell ==
  [live |-> FALSE, data |-> NoValue, elements_subtree |-> 0, depth |-> 0,
   left |-> NULL, right |-> NULL]

VARIABLES
  heap,            \* Addr -> Node cell
  root,            \* AVLTree::root
  element_count,   \* AVLTree::element_count
  n_insert,        \* number of insert calls made
  n_removed,       \* number of remove calls that took a node out of the tree
  inserted,        \* the elements passed to insert and still in the tree
  destroyed        \* ~AVLTree has run

\* HashTable<T, Hash, Equal>
VARIABLES
  hash_container,  \* *hash_container_ptr: 0..capacity-1 -> T
  elements_count,  \* HashTable::elements_count
  capacity,        \* HashTable::capacity
  max_load_factor, \* HashTable::max_load_factor, as <<numerator, denominator>>
  members          \* the keys inserted and not erased since

tree_vars == <<heap, root, element_count, n_insert, n_removed, inserted, destroyed>>

table_vars == <<hash_container, elements_count, capacity, max_load_factor, members>>

vars == <<tree_vars, table_vars>>

RECURSIVE insert_rec(_, _, _, _)
RECURSIVE remove_rec(_, _, _, _, _)
RECURSIVE remove_min(_, _)
RECURSIVE remove_max(_, _)
RECURSIVE get_Kth_rec(_, _, _, _, _)
RECURSIVE InOrder(_, _)
RECURSIVE Reach(_, _)
RECURSIVE Height(_, _)
RECURSIVE TopMatch(_, _, _)
RECURSIVE remove_subtree(_, _)
RECURSIVE insert_rec_calls(_, _, _)
RECURSIVE remove_rec_calls(_, _, _)
RECURSIVE remove_min_calls(_, _)
RECURSIVE remove_max_calls(_, _)
RECURSIVE MatchNode(_, _, _)
RECURSIVE MinNode(_, _)
RECURSIVE MaxNode(_, _)
RECURSIVE horner(_, _, _, _)
RECURSIVE look_up_while(_, _, _, _, _, _, _)
RECURSIVE HashTable_insert(_, _)
RECURSIVE reinsert(_, _, _)

\* ------------------------------------------------------------- comparator
cmp(a, b) == a[1] < b[1]

\* ------------------------------------------------------------ Node methods
DepthOf(h, n) == IF n # NULL THEN h[n].depth ELSE 0

balance(h, n) == DepthOf(h, h[n].right) - DepthOf(h, h[n].left)

update_depth(h, n) ==
  LET depth_left == DepthOf(h, h[n].left)
      depth_right == DepthOf(h, h[n].right)
  IN [h EXCEPT ![n].depth =
        ((IF depth_left > depth_right THEN depth_left ELSE depth_right) + 1) % UCharMod]

in_left_subtree(h, n) ==
  IF h[n].left # NULL THEN h[h[n].left].elements_subtree + 1 ELSE 0

in_right_subtree(h, n) ==
  IF h[n].right # NULL THEN h[h[n].right].elements_subtree + 1 ELSE 0

update_elements_subtree(h, n) ==
  [h EXCEPT ![n].elements_subtree = in_left_subtree(h, n) + in_right_subtree(h, n)]

\* -------------------------------------------------------------- allocation
NewAddr(h) ==
  CHOOSE a \in DOMAIN h : ~h[a].live /\ \A b \in DOMAIN h : b < a => h[b].live

NewNode(h, e) ==
  [h EXCEPT ![NewAddr(h)] =
     [live |-> TRUE, data |-> e, elements_subtree |-> 0, depth |-> 1,
      left |-> NULL, right |-> NULL]]

DeleteNode(h, n) == [h EXCEPT ![n] = FreeCell]

\* --------------------------------------------------------------- rotations
\* A call on a subtree returns a record: h, the heap it leaves; r, the Node* it
\* returns; and whatever it wrote through its pointer or reference parameters.

\* node->left = <the pointer the call returned>
SetLeft(s, node) == [s EXCEPT !.h[node].left = s.r]

\* node->right = <the pointer the call returned>
SetRight(s, node) == [s EXCEPT !.h[node].right = s.r]

\* return <the pointer the call b returned>, the other results being those of s
Return(s, b) == [s EXCEPT !.h = b.h, !.r = b.r]

\* rotate_right recomputing the new root before the demoted node
rotate_right_NewRootFirst(h, node) ==
  LET left == h[node].left
      h1 == [h EXCEPT ![node].left = h[left].right]
      h2 == [h1 EXCEPT ![left].right = node]
      h3 == update_depth(h2, left)
      h4 == update_depth(h3, node)
      h5 == update_elements_subtree(h4, left)
      h6 == update_elements_subtree(h5, node)
  IN [h |-> h6, r |-> left]

rotate_right(h, node) ==
  LET left == h[node].left
      h1 == [h EXCEPT ![node].left = h[left].right]
      h2 == [h1 EXCEPT ![left].right = node]
      h3 == update_depth(h2, node)
      h4 == update_depth(h3, left)
      h5 == update_elements_subtree(h4, node)
      h6 == update_elements_subtree(h5, left)
  IN [h |-> h6, r |-> left]

\* rotate_left recomputing the new root's size before the demoted node's
rotate_left_StaleSize(h, node) ==
  LET right == h[node].right
      h1 == [h EXCEPT ![node].right = h[right].left]
      h2 == [h1 EXCEPT ![right].left = node]
      h3 == update_depth(h2, node)
      h4 == update_depth(h3, right)
      h5 == update_elements_subtree(h4, right)
      h6 == update_elements_subtree(h5, node)
  IN [h |-> h6, r |-> right]

rotate_left(h, node) ==
  LET right == h[node].right
      h1 == [h EXCEPT ![node].right = h[right].left]
      h2 == [h1 EXCEPT ![right].left = node]
      h3 == update_depth(h2, node)
      h4 == update_depth(h3, right)
      h5 == update_elements_subtree(h4, node)
      h6 == update_elements_subtree(h5, right)
  IN [h |-> h6, r |-> right]

\* balance_node after node->update_depth(), without the inner rotation of the
\* double rotations
rebalance_SingleOnly(h, node) ==
  IF balance(h, node) = 2
  THEN rotate_left(h, node)
  ELSE IF balance(h, node) = -2
  THEN rotate_right(h, node)
  ELSE [h |-> update_elements_subtree(h, node), r |-> node]

\* balance_node after node->update_depth(), without the == -2 branch
rebalance_RightHeavyOnly(h, node) ==
  IF balance(h, node) = 2
  THEN rotate_left(IF balance(h, h[node].right) < 0
                   THEN SetRight(rotate_right(h, h[node].right), node).h
                   ELSE h,
                   node)
  ELSE [h |-> update_elements_subtree(h, node), r |-> node]

\* balance_node after node->update_depth(), without any rotation
rebalance_NoRotation(h, node) ==
  [h |-> update_elements_subtree(h, node), r |-> node]

\* balance_node after node->update_depth()
rebalance(h, node) ==
  IF balance(h, node) = 2
  THEN rotate_left(IF balance(h, h[node].right) < 0
                   THEN SetRight(rotate_right(h, h[node].right), node).h
                   ELSE h,
                   node)
  ELSE IF balance(h, node) = -2
  THEN rotate_right(IF balance(h, h[node].left) > 0
                    THEN SetLeft(rotate_left(h, h[node].left), node).h
                    ELSE h,
                    node)
  ELSE [h |-> update_elements_subtree(h, node), r |-> node]

\* balance_node without node->update_depth()
balance_node_StaleDepth(h, node) == rebalance(h, node)

balance_node(h, node) == rebalance(update_depth(h, node), node)

\* return balance_node(node), in the heap the call s left
ReturnBalanced(s, node) == Return(s, balance_node(s.h, node))

\* ------------------------------------------------------------------ insert
\* node->elements_subtree++
CountUp(s, node) == [s EXCEPT !.h[node].elements_subtree = @ + 1]

\* insert_rec that does not count the node it passes on the way right
insert_rec_RankOff(h, node, new_element, pos) ==
  IF node = NULL
  THEN [h |-> NewNode(h, new_element), r |-> NewAddr(h), pos |-> pos]
  ELSE IF cmp(new_element, h[node].data)
  THEN ReturnBalanced(
         CountUp(SetLeft(insert_rec(h, h[node].left, new_element, pos), node), node),
         node)
  ELSE ReturnBalanced(
         CountUp(SetRight(insert_rec(h, h[node].right, new_element,
                                     pos + in_left_subtree(h, node)), node), node),
         node)

\* insert_rec that sends an element comparing equal to the node's to the left
insert_rec_EqualLeft(h, node, new_element, pos) ==
  IF node = NULL
  THEN [h |-> NewNode(h, new_element), r |-> NewAddr(h), pos |-> pos]
  ELSE IF ~cmp(h[node].data, new_element)
  THEN ReturnBalanced(
         CountUp(SetLeft(insert_rec(h, h[node].left, new_element, pos), node), node),
         node)
  ELSE ReturnBalanced(
         CountUp(SetRight(insert_rec(h, h[node].right, new_element,
                                     pos + in_left_subtree(h, node) + 1), node), node),
         node)

insert_rec(h, node, new_element, pos) ==
  IF node = NULL
  THEN [h |-> NewNode(h, new_element), r |-> NewAddr(h), pos |-> pos]
  ELSE IF cmp(new_element, h[node].data)
  THEN ReturnBalanced(
         CountUp(SetLeft(insert_rec(h, h[node].left, new_element, pos), node), node),
         node)
  ELSE ReturnBalanced(
         CountUp(SetRight(insert_rec(h, h[node].right, new_element,
                                     pos + in_left_subtree(h, node) + 1), node), node),
         node)

\* ----------------------------------------------------------------- get_Kth
\* get_Kth_rec that does not count the node it passes on the way right
get_Kth_rec_NoSkip(h, node, find_pos, pos, value) ==
  IF node = NULL
  THEN value
  ELSE IF pos + in_left_subtree(h, node) = find_pos
  THEN h[node].data
  ELSE IF pos + in_left_subtree(h, node) < find_pos
  THEN get_Kth_rec(h, h[node].right, find_pos, pos + in_left_subtree(h, node), value)
  ELSE get_Kth_rec(h, h[node].left, find_pos, pos, value)

get_Kth_rec(h, node, find_pos, pos, value) ==
  IF node = NULL
  THEN value
  ELSE IF pos + in_left_subtree(h, node) = find_pos
  THEN h[node].data
  ELSE IF pos + in_left_subtree(h, node) < find_pos
  THEN get_Kth_rec(h, h[node].right, find_pos, pos + in_left_subtree(h, node) + 1, value)
  ELSE get_Kth_rec(h, h[node].left, find_pos, pos, value)

\* ------------------------------------------------------------------ remove
\* node->elements_subtree--
CountDown(h, node) == [h EXCEPT ![node].elements_subtree = @ - 1]

\* if (was_deleted) node->elements_subtree--
CountDownIfDeleted(s, node) ==
  IF s.was_deleted THEN [s EXCEPT !.h = CountDown(s.h, node)] ELSE s

\* remove_min that drops the right subtree of the minimum
remove_min_DropsRight(h, node) ==
  IF h[node].left = NULL
  THEN [h |-> DeleteNode(h, node), r |-> NULL, save_data |-> h[node].data]
  ELSE ReturnBalanced(
         SetLeft(remove_min(CountDown(h, node), h[node].left), node), node)

remove_min(h, node) ==
  IF h[node].left = NULL
  THEN [h |-> DeleteNode(h, node), r |-> h[node].right, save_data |-> h[node].data]
  ELSE ReturnBalanced(
         SetLeft(remove_min(CountDown(h, node), h[node].left), node), node)

remove_max(h, node) ==
  IF h[node].right = NULL
  THEN [h |-> DeleteNode(h, node), r |-> h[node].left, save_data |-> h[node].data]
  ELSE ReturnBalanced(
         SetRight(remove_max(CountDown(h, node), h[node].right), node), node)

\* *save_data = <donor's data>, save_data being &node->data
SaveData(m, node) == [m EXCEPT !.h[node].data = m.save_data]

\* the results of remove_rec: value is *value, was_deleted the reference
Removed(b, value, was_deleted) ==
  [h |-> b.h, r |-> b.r, value |-> value, was_deleted |-> was_deleted]

\* remove_rec that copies the value out after the donor has overwritten it
remove_rec_ReturnsDonor(h, node, key, value, was_deleted) ==
  IF node = NULL
  THEN Removed([h |-> h, r |-> NULL], value, was_deleted)
  ELSE IF cmp(h[node].data, key)
  THEN ReturnBalanced(
         CountDownIfDeleted(
           SetRight(remove_rec(h, h[node].right, key, value, was_deleted), node),
           node),
         node)
  ELSE IF cmp(key, h[node].data)
  THEN ReturnBalanced(
         CountDownIfDeleted(
           SetLeft(remove_rec(h, h[node].left, key, value, was_deleted), node),
           node),
         node)
  ELSE IF DepthOf(h, h[node].right) = 0 /\ DepthOf(h, h[node].left) = 0
  THEN Removed([h |-> DeleteNode(h, node), r |-> NULL], h[node].data, was_deleted)
  ELSE IF DepthOf(h, h[node].right) >= DepthOf(h, h[node].left)
  THEN Removed(
         ReturnBalanced(SaveData(SetRight(remove_min(h, h[node].right), node), node),
                        node),
         remove_min(h, h[node].right).save_data, was_deleted)
  ELSE Removed(
         ReturnBalanced(SaveData(SetLeft(remove_max(h, h[node].left), node), node),
                        node),
         remove_max(h, h[node].left).save_data, was_deleted)

\* remove_rec that takes the donor from the left when the depths are equal
remove_rec_PrefersLeft(h, node, key, value, was_deleted) ==
  IF node = NULL
  THEN Removed([h |-> h, r |-> NULL], value, was_deleted)
  ELSE IF cmp(h[node].data, key)
  THEN ReturnBalanced(
         CountDownIfDeleted(
           SetRight(remove_rec(h, h[node].right, key, value, was_deleted), node),
           node),
         node)
  ELSE IF cmp(key, h[node].data)
  THEN ReturnBalanced(
         CountDownIfDeleted(
           SetLeft(remove_rec(h, h[node].left, key, value, was_deleted), node),
           node),
         node)
  ELSE IF DepthOf(h, h[node].right) = 0 /\ DepthOf(h, h[node].left) = 0
  THEN Removed([h |-> DeleteNode(h, node), r |-> NULL], h[node].data, was_deleted)
  ELSE IF DepthOf(h, h[node].right) > DepthOf(h, h[node].left)
  THEN Removed(
         ReturnBalanced(SaveData(SetRight(remove_min(h, h[node].right), node), node),
                        node),
         h[node].data, was_deleted)
  ELSE Removed(
         ReturnBalanced(SaveData(SetLeft(remove_max(h, h[node].left), node), node),
                        node),
         h[node].data, was_deleted)

\* remove_rec that takes the maximum of the right subtree as the donor
remove_rec_DonorMax(h, node, key, value, was_deleted) ==
  IF node = NULL
  THEN Removed([h |-> h, r |-> NULL], value, was_deleted)
  ELSE IF cmp(h[node].data, key)
  THEN ReturnBalanced(
         CountDownIfDeleted(
           SetRight(remove_rec(h, h[node].right, key, value, was_deleted), node),
           node),
         node)
  ELSE IF cmp(key, h[node].data)
  THEN ReturnBalanced(
         CountDownIfDeleted(
           SetLeft(remove_rec(h, h[node].left, key, value, was_deleted), node),
           node),
         node)
  ELSE IF DepthOf(h, h[node].right) = 0 /\ DepthOf(h, h[node].left) = 0
  THEN Removed([h |-> DeleteNode(h, node), r |-> NULL], h[node].data, was_deleted)
  ELSE IF DepthOf(h, h[node].right) >= DepthOf(h, h[node].left)
  THEN Removed(
         ReturnBalanced(SaveData(SetRight(remove_max(h, h[node].right), node), node),
                        node),
         h[node].data, was_deleted)
  ELSE Removed(
         ReturnBalanced(SaveData(SetLeft(remove_max(h, h[node].left), node), node),
                        node),
         h[node].data, was_deleted)

remove_rec(h, node, key, value, was_deleted) ==
  IF node = NULL
  THEN Removed([h |-> h, r |-> NULL], value, was_deleted)
  ELSE IF cmp(h[node].data, key)
  THEN ReturnBalanced(
         CountDownIfDeleted(
           SetRight(remove_rec(h, h[node].right, key, value, was_deleted), node),
           node),
         node)
  ELSE IF cmp(key, h[node].data)
  THEN ReturnBalanced(
         CountDownIfDeleted(
           SetLeft(remove_rec(h, h[node].left, key, value, was_deleted), node),
           node),
         node)
  ELSE IF DepthOf(h, h[node].right) = 0 /\ DepthOf(h, h[node].left) = 0
  THEN Removed([h |-> DeleteNode(h, node), r |-> NULL], h[node].data, was_deleted)
  ELSE IF DepthOf(h, h[node].right) >= DepthOf(h, h[node].left)
  THEN Removed(
         ReturnBalanced(SaveData(SetRight(remove_min(h, h[node].right), node), node),
                        node),
         h[node].data, was_deleted)
  ELSE Removed(
         ReturnBalanced(SaveData(SetLeft(remove_max(h, h[node].left), node), node),
                        node),
         h[node].data, was_deleted)

\* -------------------------------------------- the calls of balance_node
\* Each call of balance_node made by a function, as the heap it is called in
\* and its argument.
Call(h, node) == [h |-> h, node |-> node]

\* the calls insert_rec(node, new_element, pos_ptr) makes, itself and below
insert_rec_calls(h, node, new_element) ==
  IF node = NULL
  THEN {}
  ELSE IF cmp(new_element, h[node].data)
  THEN insert_rec_calls(h, h[node].left, new_element) \cup
       {Call(CountUp(SetLeft(insert_rec(h, h[node].left, new_element, 0), node),
                     node).h, node)}
  ELSE insert_rec_calls(h, h[node].right, new_element) \cup
       {Call(CountUp(SetRight(insert_rec(h, h[node].right, new_element, 0), node),
                     node).h, node)}

\* the calls remove_min(node, save_data) makes, itself and below
remove_min_calls(h, node) ==
  IF h[node].left = NULL
  THEN {}
  ELSE remove_min_calls(CountDown(h, node), h[node].left) \cup
       {Call(SetLeft(remove_min(CountDown(h, node), h[node].left), node).h, node)}

\* the calls remove_max(node, save_data) makes, itself and below
remove_max_calls(h, node) ==
  IF h[node].right = NULL
  THEN {}
  ELSE remove_max_calls(CountDown(h, node), h[node].right) \cup
       {Call(SetRight(remove_max(CountDown(h, node), h[node].right), node).h, node)}

\* the calls remove_rec(node, key, value, was_deleted) makes, itself and below
remove_rec_calls(h, node, key) ==
  IF node = NULL
  THEN {}
  ELSE IF cmp(h[node].data, key)
  THEN remove_rec_calls(h, h[node].right, key) \cup
       {Call(CountDownIfDeleted(
               SetRight(remove_rec(h, h[node].right, key, NoValue, FALSE), node),
               node).h, node)}
  ELSE IF cmp(key, h[node].data)
  THEN remove_rec_calls(h, h[node].left, key) \cup
       {Call(CountDownIfDeleted(
               SetLeft(remove_rec(h, h[node].left, key, NoValue, FALSE), node),
               node).h, node)}
  ELSE IF DepthOf(h, h[node].right) = 0 /\ DepthOf(h, h[node].left) = 0
  THEN {}
  ELSE IF DepthOf(h, h[node].right) >= DepthOf(h, h[node].left)
  THEN remove_min_calls(h, h[node].right) \cup
       {Call(SaveData(SetRight(remove_min(h, h[node].right), node), node).h, node)}
  ELSE remove_max_calls(h, h[node].left) \cup
       {Call(SaveData(SetLeft(remove_max(h, h[node].left), node), node).h, node)}

\* ------------------------------------------------- what the tree holds
InOrder(h, n) ==
  IF n = NULL THEN <<>>
  ELSE InOrder(h, h[n].left) \o <<h[n].data>> \o InOrder(h, h[n].right)

Reach(h, n) ==
  IF n = NULL THEN {}
  ELSE {n} \cup Reach(h, h[n].left) \cup Reach(h, h[n].right)

Height(h, n) ==
  IF n = NULL THEN 0
  ELSE LET hl == Height(h, h[n].left)
           hr == Height(h, h[n].right)
       IN 1 + (IF hl > hr THEN hl ELSE hr)

Range(seq) == {seq[i] : i \in 1..Len(seq)}

Stored == InOrder(heap, root)

\* ------------------------------------------------------------ public calls
\* An uninitialised T that is read may hold any value; one that was never
\* written is carried as NoValue, which no node ever stores.
Indeterminate(v) == IF v = NoValue THEN AnyT ELSE {v}

\* root = insert_rec(root, new_element, &pos); return pos;
insert_return(s, count) ==
  [heap |-> s.h, root |-> s.r, element_count |-> count, pos |-> s.pos]

\* size_t AVLTree::insert(const T &new_element)
insert(h, rt, count, new_element) ==
  insert_return(insert_rec(h, rt, new_element, 0), count + 1)

\* remove that decrements the count whether or not anything was removed
remove_return_CountsAlways(s, count) ==
  [heap |-> s.h, root |-> s.r,
   element_count |-> count - 1,
   was_deleted |-> s.was_deleted,
   deleted |-> Indeterminate(s.value)]

\* root = remove_rec(...); if (was_deleted) element_count--; return deleted;
remove_return(s, count) ==
  [heap |-> s.h, root |-> s.r,
   element_count |-> IF s.was_deleted THEN count - 1 ELSE count,
   was_deleted |-> s.was_deleted,
   deleted |-> Indeterminate(s.value)]

\* T AVLTree::remove(const T &key); `deleted` starts uninitialised
remove(h, rt, count, key) ==
  remove_return(remove_rec(h, rt, key, NoValue, FALSE), count)

\* T AVLTree::get_Kth(size_t pos); `value` starts uninitialised
get_Kth(h, rt, count, pos) ==
  IF ~(pos < count)
  THEN [status |-> "assert", value |-> {}]
  ELSE [status |-> "ok", value |-> Indeterminate(get_Kth_rec(h, rt, pos, 0, NoValue))]

\* AVLTree::AVLTree(), on a heap with nothing allocated
EmptyTree ==
  /\ root = NULL
  /\ element_count = 0
  /\ n_insert = 0
  /\ n_removed = 0
  /\ inserted = {}
  /\ destroyed = FALSE

\* no HashTable has been constructed
NoTable ==
  /\ hash_container = <<>>
  /\ elements_count = 0
  /\ capacity = 0
  /\ max_load_factor = <<0, 1>>
  /\ members = {}

Init ==
  /\ heap = [a \in Addr |-> FreeCell]
  /\ EmptyTree
  /\ NoTable

\* the tree after a public call that returned s
Becomes(s) ==
  /\ heap' = s.heap
  /\ root' = s.root
  /\ element_count' = s.element_count

CanInsert == n_insert < MaxInserts

\* insert(<<k, n>>) as the n-th insert call
Insert(k) ==
  /\ CanInsert
  /\ Becomes(insert(heap, root, element_count, <<k, n_insert + 1>>))
  /\ n_insert' = n_insert + 1
  /\ inserted' = inserted \cup {<<k, n_insert + 1>>}
  /\ UNCHANGED <<n_removed, destroyed, table_vars>>

\* remove(key) with a key comparing equal to the elements of key k
Remove(k) ==
  /\ Becomes(remove(heap, root, element_count, <<k, 0>>))
  /\ n_removed' = IF Len(InOrder(heap', root')) < Len(Stored)
                  THEN n_removed + 1 ELSE n_removed
  /\ inserted' = inserted \cap Range(InOrder(heap', root'))
  /\ UNCHANGED <<n_insert, destroyed, table_vars>>

\* get_Kth reads the tree and changes nothing; it aborts or returns
GetKth(p) ==
  /\ get_Kth(heap, root, element_count, p).status \in {"ok", "assert"}
  /\ UNCHANGED vars

Next ==
  \/ \E k \in Keys : Insert(k)
  \/ \E k \in Keys : Remove(k)
  \/ \E p \in 0..MaxInserts : GetKth(p)

Spec == Init /\ [][Next]_vars

\* ------------------------------------------------------- ascending inserts
\* An empty tree that is given distinct keys in ascending order.
AscendingInit ==
  /\ heap = [a \in 1..MaxAscending |-> FreeCell]
  /\ EmptyTree
  /\ NoTable

\* insert(<<k, n>>) as the n-th insert call, k above every key inserted so far
InsertAscending(k) ==
  /\ n_insert < MaxAscending
  /\ \A e \in inserted : cmp(e, <<k, 0>>)
  /\ Becomes(insert(heap, root, element_count, <<k, n_insert + 1>>))
  /\ n_insert' = n_insert + 1
  /\ inserted' = inserted \cup {<<k, n_insert + 1>>}
  /\ UNCHANGED <<n_removed, destroyed, table_vars>>

AscendingNext == \E k \in 1..MaxAscKey : InsertAscending(k)

SpecAscending == AscendingInit /\ [][AscendingNext]_vars

\* --------------------------------------------------- the rotations alone
\* rotate_left and rotate_right applied to a node X (cell 1) and the child Y
\* (cell 2) it is exchanged with, over three subtrees of at most three nodes
\* each, with keys ascending in in-order.  The subtrees carry correct depth
\* and elements_subtree; X and Y carry any.

\* the shapes of a subtree: absent, or a node with or without each child
Shapes == {<<FALSE, FALSE, FALSE>>} \cup {<<TRUE, l, r>> : l, r \in BOOLEAN}

Leaf(key) ==
  [live |-> TRUE, data |-> <<key, 0>>, elements_subtree |-> 0, depth |-> 1,
   left |-> NULL, right |-> NULL]

\* the cell at offset i (0 the root, 1 its left child, 2 its right child) of
\* the subtree of shape sh at cells b..b+2, whose keys are k..k+2
SubtreeCell(sh, b, k, i) ==
  IF i = 0 /\ sh[1]
  THEN [live |-> TRUE, data |-> <<k + 1, 0>>,
        elements_subtree |-> (IF sh[2] THEN 1 ELSE 0) + (IF sh[3] THEN 1 ELSE 0),
        depth |-> IF sh[2] \/ sh[3] THEN 2 ELSE 1,
        left |-> IF sh[2] THEN b + 1 ELSE NULL,
        right |-> IF sh[3] THEN b + 2 ELSE NULL]
  ELSE IF i = 1 /\ sh[2] THEN Leaf(k)
  ELSE IF i = 2 /\ sh[3] THEN Leaf(k + 2)
  ELSE FreeCell

SubtreeRoot(sh, b) == IF sh[1] THEN b ELSE NULL

Exchanged(key, stale, left, right) ==
  [live |-> TRUE, data |-> <<key, 0>>, elements_subtree |-> stale[2],
   depth |-> stale[1], left |-> left, right |-> right]

\* X with left subtree A and right child Y, Y with subtrees B and C: an
\* argument of rotate_left
RightChildHeap(A, B, C, staleX, staleY) ==
  [a \in 1..11 |->
     IF a = 1 THEN Exchanged(4, staleX, SubtreeRoot(A, 3), 2)
     ELSE IF a = 2 THEN Exchanged(8, staleY, SubtreeRoot(B, 6), SubtreeRoot(C, 9))
     ELSE IF a <= 5 THEN SubtreeCell(A, 3, 1, a - 3)
     ELSE IF a <= 8 THEN SubtreeCell(B, 6, 5, a - 6)
     ELSE SubtreeCell(C, 9, 9, a - 9)]

\* X with left child Y and right subtree C, Y with subtrees A and B: an
\* argument of rotate_right
LeftChildHeap(A, B, C, staleX, staleY) ==
  [a \in 1..11 |->
     IF a = 1 THEN Exchanged(8, staleX, 2, SubtreeRoot(C, 9))
     ELSE IF a = 2 THEN Exchanged(4, staleY, SubtreeRoot(A, 3), SubtreeRoot(B, 6))
     ELSE IF a <= 5 THEN SubtreeCell(A, 3, 1, a - 3)
     ELSE IF a <= 8 THEN SubtreeCell(B, 6, 5, a - 6)
     ELSE SubtreeCell(C, 9, 9, a - 9)]

Stale == (0..MaxStale) \X (0..MaxStale)

RotateInit ==
  /\ \E A, B, C \in Shapes : \E staleX, staleY \in Stale :
       \/ heap = RightChildHeap(A, B, C, staleX, staleY)
       \/ heap = LeftChildHeap(A, B, C, staleX, staleY)
  /\ root = 1
  /\ element_count = 0
  /\ n_insert = 0
  /\ n_removed = 0
  /\ inserted = {}
  /\ destroyed = FALSE
  /\ NoTable

\* node n of heap h holds the true height and size of its subtree
FieldsCorrect(h, n) ==
  /\ h[n].depth = Height(h, n)
  /\ h[n].elements_subtree = Cardinality(Reach(h, n)) - 1

\* every node below the two exchanged ones holds correct depth and size
BelowCorrect(h, node, child) ==
  \A n \in Reach(h, node) \ {node, child} : FieldsCorrect(h, n)

\* root = <the pointer the rotation returned>
Rotated(s) ==
  /\ heap' = s.h
  /\ root' = s.r
  /\ UNCHANGED <<element_count, n_insert, n_removed, inserted, destroyed, table_vars>>

\* rotate_left(root) under its assertion node && node->right, called as
\* balance_node calls it: with everything below the two nodes up to date
RotateLeft ==
  /\ root # NULL
  /\ heap[root].right # NULL
  /\ BelowCorrect(heap, root, heap[root].right)
  /\ Rotated(rotate_left(heap, root))

\* rotate_right(root) under its assertion node && node->left, called as
\* balance_node calls it: with everything below the two nodes up to date
RotateRight ==
  /\ root # NULL
  /\ heap[root].left # NULL
  /\ BelowCorrect(heap, root, heap[root].left)
  /\ Rotated(rotate_right(heap, root))

RotateNext == RotateLeft \/ RotateRight

SpecRotate == RotateInit /\ [][RotateNext]_vars

\* ---------------------------------------------------------------- teardown
\* delete node: the cell is released and the pointer recorded
Release(s, node) ==
  [h |-> DeleteNode(s.h, node), released |-> Append(s.released, node)]

\* remove_subtree(node->right), node->right being read after the left
\* subtree has been removed
RemoveRight(s, node) == remove_subtree(s, s.h[node].right)

\* remove_subtree that does not descend into the right subtree
remove_subtree_LeftOnly(s, node) ==
  IF node = NULL
  THEN s
  ELSE Release(remove_subtree(s, s.h[node].left), node)

\* void AVLTree::remove_subtree(Node *node); s.released lists the deleted
\* pointers in the order of the delete expressions
remove_subtree(s, node) ==
  IF node = NULL
  THEN s
  ELSE Release(RemoveRight(remove_subtree(s, s.h[node].left), node), node)

\* AVLTree::~AVLTree()
Destructor(h, rt) == remove_subtree([h |-> h, released |-> <<>>], rt)

\* the tree goes out of scope; root is left as it was
Destroy ==
  /\ ~destroyed
  /\ heap' = Destructor(heap, root).h
  /\ destroyed' = TRUE
  /\ UNCHANGED <<root, element_count, n_insert, n_removed, inserted, table_vars>>

\* the public calls are made on a tree that has not been destroyed
TeardownNext ==
  \/ ~destroyed /\ Next
  \/ Destroy

SpecTeardown == Init /\ [][TeardownNext]_vars

\* =================================================================
\* HashTable<std::string, hash<A>>: open addressing with tombstones.
\*
\* A string is the sequence of its character codes.  A table t is the record
\* of the members container (*hash_container_ptr, indexed from 0),
\* elements_count, capacity and max_load_factor; max_load_factor is the
\* rational <<numerator, denominator>>.
\* =================================================================
HashA == 127                  \* the A of hash<A>
deleted == <<0, 0>>           \* the constructor's `deleted`, a string no key equals
empty == <<0>>                \* the constructor's `empty`, a string no key equals
TKeys == {<<c>> : c \in 1..MaxChar}

\* for (char symbol : key) hash = (hash * A + symbol) % m, from position i on
horner(key, m, acc, i) ==
  IF i > Len(key) THEN acc ELSE horner(key, m, (acc * HashA + key[i]) % m, i + 1)

\* hash<A>::operator()
hash(key, m) == horner(key, m, 0, 1)

\* std::equal_to<T>
equal(a, b) == a = b

\* return begin() + (was_empty ? first_empty_index : hash_index)
look_up_return(hash_index, was_empty, first_empty_index) ==
  IF was_empty THEN first_empty_index ELSE hash_index

\* hash_index = (hash_index + i++) % capacity has been done: the break test
look_up_advanced(t, key, i, hash_index, original_hash_index, was_empty, first_empty_index) ==
  IF original_hash_index = hash_index
  THEN look_up_return(hash_index, was_empty, first_empty_index)
  ELSE look_up_while(t, key, i, hash_index, original_hash_index, was_empty, first_empty_index)

\* the loop body after the first tombstone has been remembered
look_up_compare(t, key, i, hash_index, original_hash_index, was_empty, first_empty_index) ==
  IF equal(t.container[hash_index], key)
  THEN hash_index
  ELSE look_up_advanced(t, key, i + 1, (hash_index + i) % t.capacity,
                        original_hash_index, was_empty, first_empty_index)

\* while ((*hash_container_ptr)[hash_index] != empty) { ... }
look_up_while(t, key, i, hash_index, original_hash_index, was_empty, first_empty_index) ==
  IF t.container[hash_index] = empty
  THEN look_up_return(hash_index, was_empty, first_empty_index)
  ELSE look_up_compare(t, key, i, hash_index, original_hash_index,
         was_empty \/ t.container[hash_index] = deleted,
         IF t.container[hash_index] = deleted /\ ~was_empty
         THEN hash_index ELSE first_empty_index)

\* HashTable::look_up: the index the returned iterator points at
look_up(t, key) ==
  look_up_while(t, key, 1, hash(key, t.capacity), hash(key, t.capacity), FALSE, 0)

\* fabs(double(elements_count) / capacity - max_load_factor) < eps: with eps
\* = 1e-9 and capacities this small, true exactly when the two ratios are equal
load_factor_reached(t) ==
  t.elements_count * t.max_load_factor[2] = t.max_load_factor[1] * t.capacity

\* insert after the load check: *insert_it is tested and written
insert_at(t, new_element, insert_it) ==
  IF t.container[insert_it] # deleted /\ t.container[insert_it] # empty
  THEN [t |-> t, ret |-> FALSE]
  ELSE [t |-> [t EXCEPT !.container[insert_it] = new_element,
                        !.elements_count = @ + 1],
        ret |-> TRUE]

insert_look_up(t, new_element) == insert_at(t, new_element, look_up(t, new_element))

\* capacity = cap; elements_count = 0; hash_container_ptr.reset(...)
reset(t, cap) ==
  [t EXCEPT !.capacity = cap, !.elements_count = 0,
            !.container = [i \in 0..(cap - 1) |-> empty]]

\* if (it != deleted && it != empty) insert(it)
reinsert_one(t, it) ==
  IF it # deleted /\ it # empty THEN HashTable_insert(t, it).t ELSE t

\* for (const auto &it : *old_hash_container_ptr), from index i on
reinsert(old, i, t) ==
  IF i \notin DOMAIN old THEN t ELSE reinsert(old, i + 1, reinsert_one(t, old[i]))

\* void HashTable::rehash(size_t cap)
rehash(t, cap) == reinsert(t.container, 0, reset(t, cap))

\* bool HashTable::insert(const T &new_element)
HashTable_insert(t, new_element) ==
  insert_look_up(IF load_factor_reached(t) THEN rehash(t, t.capacity * 2) ELSE t,
                 new_element)

\* erase after elements_count == 0 has been excluded
erase_at(t, it) ==
  IF t.container[it] = deleted \/ t.container[it] = empty
  THEN [t |-> t, ret |-> FALSE]
  ELSE [t |-> [t EXCEPT !.elements_count = @ - 1, !.container[it] = deleted],
        ret |-> TRUE]

\* bool HashTable::erase(const T &key)
HashTable_erase(t, key) ==
  IF t.elements_count = 0
  THEN [t |-> t, ret |-> FALSE]
  ELSE erase_at(t, look_up(t, key))

\* bool HashTable::has(const T &key) const
HashTable_has(t, key) ==
  t.container[look_up(t, key)] # deleted /\ t.container[look_up(t, key)] # empty

\* the HashTable object
Table ==
  [container |-> hash_container, elements_count |-> elements_count,
   capacity |-> capacity, max_load_factor |-> max_load_factor]

\* HashTable::HashTable(deleted, empty, max_load_factor, eps, capacity)
TableInit ==
  /\ heap = [a \in Addr |-> FreeCell]
  /\ EmptyTree
  /\ capacity \in 1..MaxCapacity
  /\ max_load_factor \in {<<n, LoadDen>> : n \in 1..LoadDen}
  /\ hash_container = [i \in 0..(capacity - 1) |-> empty]
  /\ elements_count = 0
  /\ members = {}

\* the table after a public call that returned s
TableBecomes(s) ==
  /\ hash_container' = s.t.container
  /\ elements_count' = s.t.elements_count
  /\ capacity' = s.t.capacity
  /\ max_load_factor' = s.t.max_load_factor

TableInsert(key) ==
  /\ TableBecomes(HashTable_insert(Table, key))
  /\ members' = members \cup {key}
  /\ UNCHANGED tree_vars

TableErase(key) ==
  /\ TableBecomes(HashTable_erase(Table, key))
  /\ members' = members \ {key}
  /\ UNCHANGED tree_vars

\* has reads the table and changes nothing
TableHas(key) ==
  /\ HashTable_has(Table, key) \in BOOLEAN
  /\ UNCHANGED vars

TableNext ==
  \/ \E key \in TKeys : TableInsert(key)
  \/ \E key \in TKeys : TableErase(key)
  \/ \E key \in TKeys : TableHas(key)

SpecHash == TableInit /\ [][TableNext]_vars

\* the elements the container holds
Contents(t) == {t.container[i] : i \in DOMAIN t.container} \ {deleted, empty}

\* ----------------------------------------------------- helpers of the claims
KeyEq(a, b) == ~cmp(a, b) /\ ~cmp(b, a)

HasEqual(seq, key) == \E i \in 1..Len(seq) : KeyEq(seq[i], key)

KeyOf(k) == <<k, 0>>

Without(seq, i) == SubSeq(seq, 1, i - 1) \o SubSeq(seq, i + 1, Len(seq))

\* C1: the maintained element count equals the number of insert calls minus
\* the number of remove calls that removed an element.
CountConsistency == element_count = n_insert - n_removed

\* C2: get_Kth with a rank at or above the number of stored elements is
\* rejected by the bounds assertion and returns no value.
GetKthRejectsOutOfRange ==
  \A p \in 0..MaxInserts :
    p >= Len(Stored) => get_Kth(heap, root, element_count, p).status = "assert"

\* C3: remove(key) reports a removal (was_deleted) exactly when an element
\* comparing equal to key was stored before the call.
RemoveSignalsFound ==
  \A k \in Keys :
    remove(heap, root, element_count, KeyOf(k)).was_deleted
      <=> HasEqual(Stored, KeyOf(k))

\* sorted position of e among the elements of S: by the comparator, elements
\* comparing equal in insertion order (the tag is the insertion serial)
Before(x, e) == cmp(x, e) \/ (KeyEq(x, e) /\ x[2] < e[2])

RankIn(e, S) == Cardinality({x \in S : Before(x, e)})

Ok(v) == [status |-> "ok", value |-> {v}]

\* C4: after inserts only, get_Kth(r) returns the r-th smallest inserted
\* element for every valid rank r, equal elements in insertion order.
OrderStatisticsRoundTrip ==
  n_removed = 0 =>
    /\ Cardinality(inserted) = n_insert
    /\ \A e \in inserted :
         get_Kth(heap, root, element_count, RankIn(e, inserted)) = Ok(e)

OrderStatisticsWitness ==
  /\ n_removed = 0
  /\ n_insert = MaxInserts
  /\ \E a, b \in inserted : a # b /\ KeyEq(a, b)
  /\ \E a, b \in inserted : cmp(a, b)
  /\ heap[root].data[2] # 1

\* C5: the rank insert(v) returns is the number of stored elements that do
\* not compare greater than v, and get_Kth of that rank then returns v.
NotGreaterCount(seq, v) == Cardinality({i \in 1..Len(seq) : ~cmp(v, seq[i])})

InsertRank ==
  CanInsert =>
    \A k \in Keys :
      LET v == <<k, n_insert + 1>>
          s == insert(heap, root, element_count, v)
      IN /\ s.pos = NotGreaterCount(Stored, v)
         /\ get_Kth(s.heap, s.root, s.element_count, s.pos) = Ok(v)

\* an insert in a state reached through a removal, that rotates at the root
\* and lands strictly inside the sequence
InsertRankWitness ==
  /\ n_removed > 0
  /\ CanInsert
  /\ \E k \in Keys :
       LET v == <<k, n_insert + 1>>
           s == insert(heap, root, element_count, v)
       IN /\ s.root # root
          /\ root # NULL
          /\ s.pos > 0
          /\ s.pos < Len(Stored)

\* remove(key) applied to the current state, and what the tree holds afterwards
RemoveOf(k) == remove(heap, root, element_count, KeyOf(k))

AfterRemove(k) == InOrder(RemoveOf(k).heap, RemoveOf(k).root)

\* remove(key) moves the root by a rotation, not by releasing it
RemoveRotates(k) ==
  /\ RemoveOf(k).root # root
  /\ RemoveOf(k).root # NULL
  /\ RemoveOf(k).heap[root].live

\* C6: a remove(k) that finds k leaves the prior in-order sequence with
\* exactly one element equal to k excised, and get_Kth(r) then returns the
\* r-th element of the remaining sequence for every r below its length.
RemoveExcisesOne ==
  \A k \in Keys :
    HasEqual(Stored, KeyOf(k)) =>
      LET s == RemoveOf(k)
          after == AfterRemove(k)
      IN /\ \E i \in 1..Len(Stored) :
              KeyEq(Stored[i], KeyOf(k)) /\ after = Without(Stored, i)
         /\ \A r \in 0..(Len(after) - 1) :
              get_Kth(s.heap, s.root, s.element_count, r) = Ok(after[r + 1])

\* remove(key) matches the root, which stays in place and takes a donor's value
DonorSubstitution(k) ==
  /\ root # NULL
  /\ KeyEq(heap[root].data, KeyOf(k))
  /\ RemoveOf(k).root = root
  /\ RemoveOf(k).heap[root].data # heap[root].data

\* a removal of an inner node of a tree of four or more elements, some of
\* them comparing equal
RemoveExcisesWitness ==
  /\ Len(Stored) >= 4
  /\ \E i, j \in 1..Len(Stored) : i # j /\ KeyEq(Stored[i], Stored[j])
  /\ \E k \in Keys : DonorSubstitution(k)

\* C7: remove(key) with no stored element equal to key changes nothing: not
\* the shape, nor any node's data, depth or elements_subtree, nor the count.
RemoveAbsentNoOp ==
  \A k \in Keys :
    ~HasEqual(Stored, KeyOf(k)) =>
      LET s == RemoveOf(k)
      IN /\ s.heap = heap
         /\ s.root = root
         /\ s.element_count = element_count

\* an absent key whose search path runs through at least two nodes
RemoveAbsentWitness ==
  \E k \in Keys :
    /\ ~HasEqual(Stored, KeyOf(k))
    /\ root # NULL
    /\ LET next == IF cmp(heap[root].data, KeyOf(k))
                    THEN heap[root].right ELSE heap[root].left
       IN next # NULL
    /\ n_removed > 0

\* the first element of seq comparing equal to key
FirstEqual(seq, key) ==
  seq[CHOOSE i \in 1..Len(seq) :
        KeyEq(seq[i], key) /\ \A j \in 1..(i - 1) : ~KeyEq(seq[j], key)]

\* the element comparing equal to key whose node has no ancestor comparing
\* equal to key (NoValue when there is none)
TopMatch(h, n, key) ==
  IF n = NULL THEN NoValue
  ELSE IF KeyEq(h[n].data, key) THEN h[n].data
  ELSE LET l == TopMatch(h, h[n].left, key)
       IN IF l # NoValue THEN l ELSE TopMatch(h, h[n].right, key)

\* C8 as stated: with several stored elements comparing equal to key,
\* remove(key) removes and returns the first of them in the in-order sequence.
RemoveTakesFirstDuplicate ==
  \A k \in Keys :
    HasEqual(Stored, KeyOf(k)) =>
      /\ RemoveOf(k).deleted = {FirstEqual(Stored, KeyOf(k))}
      /\ Range(AfterRemove(k)) = Range(Stored) \ {FirstEqual(Stored, KeyOf(k))}

\* C8 as amended: remove(key) removes and returns the element comparing equal
\* to key that is stored nearest the root (the first one met on the descent);
\* every other element, equal or not, stays.
RemoveTakesTopmostDuplicate ==
  \A k \in Keys :
    HasEqual(Stored, KeyOf(k)) =>
      /\ RemoveOf(k).deleted = {TopMatch(heap, root, KeyOf(k))}
      /\ Range(AfterRemove(k)) = Range(Stored) \ {TopMatch(heap, root, KeyOf(k))}

\* several elements compare equal to key and the one nearest the root is not
\* the first of them in the in-order sequence
RemoveDuplicateWitness ==
  \E k \in Keys :
    /\ HasEqual(Stored, KeyOf(k))
    /\ TopMatch(heap, root, KeyOf(k)) # FirstEqual(Stored, KeyOf(k))
    /\ n_removed > 0

\* C9: every node's left and right subtrees differ in true height by at most 1.
Balanced ==
  \A n \in Reach(heap, root) :
    Height(heap, heap[n].right) - Height(heap, heap[n].left) \in {-1, 0, 1}

\* a tree of height three that a removal rebalances by a rotation at the root
BalancedWitness ==
  /\ Height(heap, root) = 3
  /\ \E k \in Keys : HasEqual(Stored, KeyOf(k)) /\ RemoveRotates(k)

\* C10: every node's elements_subtree is the number of nodes of the subtree
\* rooted at it, the node itself excluded.
SizeInvariant ==
  \A n \in Reach(heap, root) :
    heap[n].elements_subtree = Cardinality(Reach(heap, n)) - 1

\* a tree that a removal rebalances by a double rotation at the root (the new
\* root is a former grandchild)
SizeWitness ==
  /\ root # NULL
  /\ \E k \in Keys :
       /\ HasEqual(Stored, KeyOf(k))
       /\ RemoveRotates(k)
       /\ RemoveOf(k).root \notin {heap[root].left, heap[root].right}

\* the elements stored in the subtree rooted at n
Elements(h, n) == Range(InOrder(h, n))

\* C11 as stated: at every node, every element of the left subtree compares
\* strictly less than the node's and every element of the right subtree
\* compares greater or equal.
OrderStrict ==
  \A n \in Reach(heap, root) :
    /\ \A x \in Elements(heap, heap[n].left) : cmp(x, heap[n].data)
    /\ \A x \in Elements(heap, heap[n].right) : ~cmp(x, heap[n].data)

\* C11 as amended: at every node, no element of the left subtree compares
\* greater than the node's and no element of the right subtree compares less;
\* an element comparing equal may be on either side.
OrderWeak ==
  \A n \in Reach(heap, root) :
    /\ \A x \in Elements(heap, heap[n].left) : ~cmp(heap[n].data, x)
    /\ \A x \in Elements(heap, heap[n].right) : ~cmp(x, heap[n].data)

\* after a removal, a node with an element comparing equal in its left subtree
\* and an element comparing greater in its right subtree
OrderWitness ==
  /\ n_removed > 0
  /\ \E n \in Reach(heap, root) :
       /\ \E x \in Elements(heap, heap[n].left) : KeyEq(x, heap[n].data)
       /\ \E x \in Elements(heap, heap[n].right) : cmp(heap[n].data, x)

\* C12: every node's depth field is the true height of the subtree rooted at
\* it (a leaf 1, an absent child 0).
DepthInvariant ==
  \A n \in Reach(heap, root) :
    /\ heap[n].depth = Height(heap, n)
    /\ heap[n].depth =
         1 + (IF DepthOf(heap, heap[n].left) > DepthOf(heap, heap[n].right)
              THEN DepthOf(heap, heap[n].left) ELSE DepthOf(heap, heap[n].right))

\* a removal that rotates at the root and lowers the tree
DepthWitness ==
  \E k \in Keys :
    /\ HasEqual(Stored, KeyOf(k))
    /\ RemoveRotates(k)
    /\ Height(RemoveOf(k).heap, RemoveOf(k).root) < Height(heap, root)

\* the cells allocated and not released
Live(h) == {a \in DOMAIN h : h[a].live}

\* the index of the last element of seq that does not compare greater than v
\* (0 when there is none)
LastNotGreater(seq, v) ==
  LET S == {i \in 1..Len(seq) : ~cmp(v, seq[i])}
  IN IF S = {} THEN 0 ELSE CHOOSE i \in S : \A j \in S : j <= i

InsertAfter(seq, i, v) == SubSeq(seq, 1, i) \o <<v>> \o SubSeq(seq, i + 1, Len(seq))

\* C13: insert(v) is never rejected: it allocates exactly one node, the in-order
\* sequence becomes the prior one with v placed immediately after the last
\* element not comparing greater than v, and the count grows by one.
InsertAddsOne ==
  CanInsert =>
    \A k \in Keys :
      LET v == <<k, n_insert + 1>>
          s == insert(heap, root, element_count, v)
      IN /\ InOrder(s.heap, s.root) = InsertAfter(Stored, LastNotGreater(Stored, v), v)
         /\ s.element_count = element_count + 1
         /\ Live(heap) \subseteq Live(s.heap)
         /\ Cardinality(Live(s.heap)) = Cardinality(Live(heap)) + 1
         /\ Reach(s.heap, s.root) = Live(s.heap)

\* an insert of an element comparing equal to a stored one that is not the
\* last of the sequence, into a tree a removal has changed
InsertAddsOneWitness ==
  /\ CanInsert
  /\ n_removed > 0
  /\ \E k \in Keys :
       /\ HasEqual(Stored, KeyOf(k))
       /\ LastNotGreater(Stored, KeyOf(k)) < Len(Stored)
       /\ insert(heap, root, element_count, <<k, n_insert + 1>>).root # root

\* C14: while up to 10 distinct keys are inserted in ascending order into an
\* empty tree, the height of the tree (true and stored) never exceeds 6.
AscendingHeight ==
  n_insert <= 10 =>
    /\ Height(heap, root) <= 6
    /\ DepthOf(heap, root) <= 6

\* ten ascending inserts made, rotations having moved the root
AscendingWitness ==
  /\ n_insert = 10
  /\ Len(Stored) = 10
  /\ heap[root].data[2] # 1
  /\ Height(heap, root) = 4

NoDuplicates(seq) == \A i, j \in 1..Len(seq) : seq[i] = seq[j] => i = j

\* C15: on a tree that has not been destroyed, every node reachable from root
\* is reached by one path only and the allocated cells are exactly the
\* reachable ones; insert allocates exactly one cell and releases none; a
\* remove that finds a match releases exactly one cell, which is then
\* unreachable; the destructor deletes every allocated cell exactly once, and
\* after it nothing is allocated.
Ownership ==
  IF destroyed
  THEN Live(heap) = {}
  ELSE /\ Reach(heap, root) = Live(heap)
       /\ Len(Stored) = Cardinality(Reach(heap, root))
       /\ CanInsert =>
            \A k \in Keys :
              LET s == insert(heap, root, element_count, <<k, n_insert + 1>>)
              IN /\ Live(heap) \subseteq Live(s.heap)
                 /\ Cardinality(Live(s.heap) \ Live(heap)) = 1
       /\ \A k \in Keys :
            HasEqual(Stored, KeyOf(k)) =>
              /\ Live(RemoveOf(k).heap) \subseteq Live(heap)
              /\ Cardinality(Live(heap) \ Live(RemoveOf(k).heap)) = 1
              /\ Reach(RemoveOf(k).heap, RemoveOf(k).root) = Live(RemoveOf(k).heap)
       /\ NoDuplicates(Destructor(heap, root).released)
       /\ Range(Destructor(heap, root).released) = Live(heap)
       /\ Live(Destructor(heap, root).h) = {}

\* a tree of three or more nodes, changed by a removal, has been destroyed
OwnershipWitness ==
  /\ destroyed
  /\ n_removed > 0
  /\ n_insert - n_removed >= 3

\* C16: insert(x) returns false exactly when x is stored, and then leaves
\* the stored elements as they are; otherwise it stores x and returns true.
InsertReportsDuplicate ==
  \A x \in TKeys :
    /\ HashTable_insert(Table, x).ret = (x \notin members)
    /\ Contents(HashTable_insert(Table, x).t) = members \cup {x}

\* C17: has(key) is true exactly when key was inserted and not erased since;
\* erase(key) returns true exactly when key was stored and removes that key
\* and no other element.
HasAndEraseExact ==
  \A key \in TKeys :
    /\ HashTable_has(Table, key) = (key \in members)
    /\ HashTable_erase(Table, key).ret = (key \in members)
    /\ Contents(HashTable_erase(Table, key).t) = members \ {key}

\* the node remove_rec stops at: the first one on the descent from n that
\* compares equal to key (NULL when the descent runs out)
MatchNode(h, n, key) ==
  IF n = NULL THEN NULL
  ELSE IF cmp(h[n].data, key) THEN MatchNode(h, h[n].right, key)
  ELSE IF cmp(key, h[n].data) THEN MatchNode(h, h[n].left, key)
  ELSE n

MinNode(h, n) == IF h[n].left = NULL THEN n ELSE MinNode(h, h[n].left)

MaxNode(h, n) == IF h[n].right = NULL THEN n ELSE MaxNode(h, h[n].right)

Donor(h, m) ==
  IF DepthOf(h, h[m].right) >= DepthOf(h, h[m].left)
  THEN MinNode(h, h[m].right)
  ELSE MaxNode(h, h[m].left)

HasChild(h, m) == h[m].left # NULL \/ h[m].right # NULL

\* C18: when remove_rec matches a node with a child, the donor is the minimum
\* of the right subtree if depth(right) >= depth(left), else the maximum of
\* the left subtree; the matched node stays in the tree and takes the donor's
\* value, the donor's node is the one released, and the value returned is the
\* matched node's original value.
DonorRule ==
  \A k \in Keys :
    LET m == MatchNode(heap, root, KeyOf(k))
    IN (m # NULL /\ HasChild(heap, m)) =>
         /\ m \in Reach(RemoveOf(k).heap, RemoveOf(k).root)
         /\ RemoveOf(k).heap[m].data = heap[Donor(heap, m)].data
         /\ Live(heap) \ Live(RemoveOf(k).heap) = {Donor(heap, m)}
         /\ RemoveOf(k).deleted = {heap[m].data}

\* a match below the root whose left side is the deeper one, so that the
\* donor is the maximum of the left subtree
DonorWitness ==
  \E k \in Keys :
    LET m == MatchNode(heap, root, KeyOf(k))
    IN /\ m # NULL
       /\ m # root
       /\ DepthOf(heap, heap[m].left) > DepthOf(heap, heap[m].right)

\* the calls of balance_node that insert and remove make from the current
\* state, for every argument
BalanceNodeCalls ==
  (IF CanInsert
   THEN UNION {insert_rec_calls(heap, root, <<k, n_insert + 1>>) : k \in Keys}
   ELSE {})
  \cup UNION {remove_rec_calls(heap, root, KeyOf(k)) : k \in Keys}

\* what balance_node(node) called in heap h does, u being h after
\* node->update_depth() and r what the call returns
BalanceNodeDoes(u, node, r) ==
  LET right == u[node].right
      left == u[node].left
  IN /\ balance(u, node) \in -2..2
     /\ balance(u, node) = 2 =>
          IF balance(u, right) < 0
          THEN /\ r.r = u[right].left
               /\ r.h[r.r].left = node
               /\ r.h[r.r].right = right
          ELSE /\ r.r = right
               /\ r.h[right].left = node
               /\ r.h[right].right = u[right].right
     /\ balance(u, node) = -2 =>
          IF balance(u, left) > 0
          THEN /\ r.r = u[left].right
               /\ r.h[r.r].right = node
               /\ r.h[r.r].left = left
          ELSE /\ r.r = left
               /\ r.h[left].right = node
               /\ r.h[left].left = u[left].left
     /\ balance(u, node) \in {-1, 0, 1} =>
          /\ r.r = node
          /\ r.h = update_elements_subtree(u, node)
     /\ balance(r.h, r.r) \in {-1, 0, 1}
     /\ InOrder(r.h, r.r) = InOrder(u, node)

\* C20: in every call of balance_node during an insert or a remove the
\* balance factor after the depth is recomputed is within -2..2; at +2 the
\* right child is first rotated right exactly when its balance is negative
\* and then the node is rotated left, at -2 symmetrically, otherwise only the
\* size is recomputed; the returned root has balance in -1..1.
BalanceNodeRule ==
  \A c \in BalanceNodeCalls :
    BalanceNodeDoes(update_depth(c.h, c.node), c.node, balance_node(c.h, c.node))

\* a removal in which balance_node finds -2 with a right-heavy left child
\* and makes the double rotation
BalanceNodeWitness ==
  \E k \in Keys :
    \E c \in remove_rec_calls(heap, root, KeyOf(k)) :
      /\ balance(update_depth(c.h, c.node), c.node) = -2
      /\ balance(c.h, c.h[c.node].left) > 0
      /\ balance_node(c.h, c.node).r = c.h[c.h[c.node].left].right

\* the rotation of node with its child returned s: the child is the new
\* root with node below it, the in-order sequence is the same, both hold
\* correct depth and size, and no other cell was written
RotationDoes(h, node, child, s) ==
  /\ s.r = child
  /\ node \in {s.h[child].left, s.h[child].right}
  /\ InOrder(s.h, s.r) = InOrder(h, node)
  /\ FieldsCorrect(s.h, node)
  /\ FieldsCorrect(s.h, child)
  /\ \A a \in DOMAIN h \ {node, child} : s.h[a] = h[a]

\* C19: rotate_left and rotate_right, applied to a node whose subtrees below
\* the two exchanged nodes carry correct depth and elements_subtree, return
\* the child as the new root, keep the in-order sequence, and leave both the
\* demoted node and the new root with correct depth and elements_subtree
\* (which needs the demoted node recomputed first); once a rotation has been
\* made the whole tree carries correct values.
RotationCorrect ==
  /\ (heap[root].right # NULL /\ BelowCorrect(heap, root, heap[root].right)) =>
       RotationDoes(heap, root, heap[root].right, rotate_left(heap, root))
  /\ (heap[root].left # NULL /\ BelowCorrect(heap, root, heap[root].left)) =>
       RotationDoes(heap, root, heap[root].left, rotate_right(heap, root))
  /\ root # 1 => \A n \in Reach(heap, root) : FieldsCorrect(heap, n)
  /\ \A i, j \in 1..Len(Stored) : i < j => cmp(Stored[i], Stored[j])

\* a rotation has made Y the root, above X and three non-empty subtrees, the
\* middle one with both children
RotationWitness ==
  /\ root = 2
  /\ heap[3].live
  /\ heap[7].live
  /\ heap[8].live
  /\ heap[9].live
  /\ 1 \in {heap[2].left, heap[2].right}

\* elements_count / capacity <= max_load_factor
WithinLoad(t) ==
  t.elements_count * t.max_load_factor[2] <= t.max_load_factor[1] * t.capacity

\* the rehash an insert makes when the load factor has reached
\* max_load_factor: doubled capacity, the same live elements, and
\* elements_count the number of live cells
RehashKeepsLive ==
  load_factor_reached(Table) =>
    /\ rehash(Table, capacity * 2).capacity = capacity * 2
    /\ DOMAIN rehash(Table, capacity * 2).container = 0..(capacity * 2 - 1)
    /\ Contents(rehash(Table, capacity * 2)) = Contents(Table)
    /\ rehash(Table, capacity * 2).elements_count = Cardinality(Contents(Table))

\* C21: after every insert the load factor does not exceed max_load_factor,
\* an insert that arrives when it has been reached first rehashing into a
\* table of doubled capacity that holds exactly the live elements.
LoadFactorBounded ==
  /\ \A x \in TKeys : WithinLoad(HashTable_insert(Table, x).t)
  /\ RehashKeepsLive

\* =================================================================
\* BinaryTree<T, Comparator>: a naive binary tree.  Its nodes are cells of
\* heap with the fields data, left and right; root is BinaryTree::root.
RECURSIVE BinaryTree_insert_while(_, _, _)
RECURSIVE get_depth_while(_, _, _)
RECURSIVE BinaryTree_destructor_while(_)

BinaryTreeFree == [live |-> FALSE, data |-> NoValue, left |-> NULL, right |-> NULL]

\* new Node{new_element, nullptr, nullptr}
BinaryTree_NewNode(h, new_element) ==
  [h EXCEPT ![NewAddr(h)] =
     [live |-> TRUE, data |-> new_element, left |-> NULL, right |-> NULL]]

\* the while (true) loop of insert, at current_node
BinaryTree_insert_while(h, current_node, new_element) ==
  IF ~cmp(h[current_node].data, new_element)
  THEN IF h[current_node].right # NULL
       THEN BinaryTree_insert_while(h, h[current_node].right, new_element)
       ELSE [BinaryTree_NewNode(h, new_element) EXCEPT ![current_node].right = NewAddr(h)]
  ELSE IF h[current_node].left # NULL
       THEN BinaryTree_insert_while(h, h[current_node].left, new_element)
       ELSE [BinaryTree_NewNode(h, new_element) EXCEPT ![current_node].left = NewAddr(h)]

\* void BinaryTree::insert(const T &new_element)
BinaryTree_insert(h, rt, new_element) ==
  IF rt = NULL
  THEN [heap |-> BinaryTree_NewNode(h, new_element), root |-> NewAddr(h)]
  ELSE [heap |-> BinaryTree_insert_while(h, rt, new_element), root |-> rt]

\* the children of the nodes of one level: what the for loop leaves queued
NextLevel(h, queue) ==
  ({h[n].left : n \in queue} \cup {h[n].right : n \in queue}) \ {NULL}

\* the while (!queue.empty()) loop of get_depth; queue holds one level
get_depth_while(h, queue, depth) ==
  IF queue = {} THEN depth
  ELSE get_depth_while(h, NextLevel(h, queue), depth + 1)

\* int BinaryTree::get_depth() const
BinaryTree_get_depth(h, rt) ==
  IF rt = NULL THEN 0 ELSE get_depth_while(h, {rt}, 0)

\* p points to a node that exists
Exists(h, p) == p # NULL /\ h[p].live

\* dfs_stack.push(p), the top being the last element
Push(stack, p) == Append(stack, p)

\* if (current->left) push; if (current->right) push, reading fields l and r
PushChildren(stack, l, r) ==
  IF l # NULL
  THEN IF r # NULL THEN Push(Push(stack, l), r) ELSE Push(stack, l)
  ELSE IF r # NULL THEN Push(stack, r) ELSE stack

\* one pass of the loop on a node that exists: pop, push the children,
\* delete current
Visit(s, current) ==
  [h |-> [s.h EXCEPT ![current] = BinaryTreeFree],
   dfs_stack |-> PushChildren(SubSeq(s.dfs_stack, 1, Len(s.dfs_stack) - 1),
                              s.h[current].left, s.h[current].right),
   released |-> Append(s.released, current),
   wild |-> s.wild,
   killed |-> FALSE]

\* current->left read through a pointer to no node, which is undefined: the
\* run is killed at the read ...
Killed(s, current) ==
  [h |-> s.h, dfs_stack |-> s.dfs_stack, released |-> s.released,
   wild |-> Append(s.wild, current), killed |-> TRUE]

\* ... or goes on with null read for both fields, delete of a null pointer
\* doing nothing
ReadsNull(s, current) ==
  [h |-> s.h,
   dfs_stack |-> SubSeq(s.dfs_stack, 1, Len(s.dfs_stack) - 1),
   released |-> IF current = NULL THEN s.released ELSE Append(s.released, current),
   wild |-> Append(s.wild, current),
   killed |-> FALSE]

\* the while (!dfs_stack.empty()) loop of the destructor: the set of ways it
\* can end
BinaryTree_destructor_while(s) ==
  IF s.dfs_stack = <<>>
  THEN {s}
  ELSE IF Exists(s.h, s.dfs_stack[Len(s.dfs_stack)])
       THEN BinaryTree_destructor_while(Visit(s, s.dfs_stack[Len(s.dfs_stack)]))
       ELSE {Killed(s, s.dfs_stack[Len(s.dfs_stack)])}
            \cup BinaryTree_destructor_while(ReadsNull(s, s.dfs_stack[Len(s.dfs_stack)]))

\* BinaryTree::~BinaryTree(): root is pushed whatever it is
BinaryTree_destructor(h, rt) ==
  BinaryTree_destructor_while(
    [h |-> h, dfs_stack |-> <<rt>>, released |-> <<>>, wild |-> <<>>,
     killed |-> FALSE])

\* BinaryTree::BinaryTree(); the constructor from a vector is this one
\* followed by an insert per element
BinaryTreeInit ==
  /\ heap = [a \in Addr |-> BinaryTreeFree]
  /\ EmptyTree
  /\ NoTable

BinaryTreeInsert(k) ==
  /\ ~destroyed
  /\ CanInsert
  /\ heap' = BinaryTree_insert(heap, root, <<k, n_insert + 1>>).heap
  /\ root' = BinaryTree_insert(heap, root, <<k, n_insert + 1>>).root
  /\ n_insert' = n_insert + 1
  /\ inserted' = inserted \cup {<<k, n_insert + 1>>}
  /\ UNCHANGED <<element_count, n_removed, destroyed, table_vars>>

\* get_depth reads the tree and changes nothing
BinaryTreeGetDepth ==
  /\ ~destroyed
  /\ BinaryTree_get_depth(heap, root) \in 0..MaxInserts
  /\ UNCHANGED vars

\* the tree goes out of scope
BinaryTreeDestroy ==
  /\ ~destroyed
  /\ \E s \in BinaryTree_destructor(heap, root) : heap' = s.h
  /\ destroyed' = TRUE
  /\ UNCHANGED <<root, element_count, n_insert, n_removed, inserted, table_vars>>

BinaryTreeNext ==
  \/ \E k \in Keys : BinaryTreeInsert(k)
  \/ BinaryTreeGetDepth
  \/ BinaryTreeDestroy

SpecBinaryTree == BinaryTreeInit /\ [][BinaryTreeNext]_vars

\* C23: destroying a BinaryTree in any reachable state, the tree into which
\* nothing was inserted included, dereferences only existing nodes and
\* releases each node exactly once.
DestructorSafe ==
  ~destroyed =>
    \A s \in BinaryTree_destructor(heap, root) :
      /\ s.wild = <<>>
      /\ ~s.killed
      /\ NoDuplicates(s.released)
      /\ Range(s.released) = Live(heap)
      /\ Live(s.h) = {}

\* the same for the trees into which something was inserted
DestructorSafeNonEmpty ==
  (~destroyed /\ root # NULL) =>
    \A s \in BinaryTree_destructor(heap, root) :
      /\ s.wild = <<>>
      /\ ~s.killed
      /\ NoDuplicates(s.released)
      /\ Range(s.released) = Live(heap)
      /\ Live(s.h) = {}

\* =================================================================
\* Treap<T, P, ComparatorT, ComparatorP>: a cartesian tree.  Its nodes are
\* cells of heap with the fields data, priority, left and right; root is
\* Treap::root.  T is <<key, tag>> compared by key, P an integer, both
\* comparators being "less than".
RECURSIVE split(_, _, _)
RECURSIVE Treap_insert_while(_, _, _, _)
RECURSIVE get_binary_tree_depth_rec(_, _)

Priorities == 1..MaxPriority

TreapFree ==
  [live |-> FALSE, data |-> NoValue, priority |-> 0, left |-> NULL, right |-> NULL]

cmp_data(a, b) == a[1] < b[1]

cmp_priority(a, b) == a < b

\* new Node{new_element, new_priority, left, right}
Treap_NewNode(h, new_element, new_priority, left, right) ==
  [h EXCEPT ![NewAddr(h)] =
     [live |-> TRUE, data |-> new_element, priority |-> new_priority,
      left |-> left, right |-> right]]

\* t->right = right_nodes.first; return {t, right_nodes.second}
SplitRight(right_nodes, t) ==
  [h |-> [right_nodes.h EXCEPT ![t].right = right_nodes.first],
   first |-> t, second |-> right_nodes.second]

\* t->left = left_nodes.second; return {left_nodes.first, t}
SplitLeft(left_nodes, t) ==
  [h |-> [left_nodes.h EXCEPT ![t].left = left_nodes.second],
   first |-> left_nodes.first, second |-> t]

\* return {nullptr, nullptr}
NoNodes(h) == [h |-> h, first |-> NULL, second |-> NULL]

\* split that leaves t->left as it was
split_KeepsLeft(h, t, key) ==
  IF t = NULL
  THEN NoNodes(h)
  ELSE IF cmp_data(h[t].data, key)
       THEN SplitRight(split(h, h[t].right, key), t)
       ELSE [h |-> split(h, h[t].left, key).h,
             first |-> split(h, h[t].left, key).first, second |-> t]

\* pair<Node, Node> Treap::split(shared_ptr<Node> &t, const T &key)
split(h, t, key) ==
  IF t = NULL
  THEN NoNodes(h)
  ELSE IF cmp_data(h[t].data, key)
       THEN SplitRight(split(h, h[t].right, key), t)
       ELSE SplitLeft(split(h, h[t].left, key), t)

\* root.reset(new Node{new_element, new_priority, first, second})
NewRoot(left_right, new_element, new_priority) ==
  [heap |-> Treap_NewNode(left_right.h, new_element, new_priority,
                          left_right.first, left_right.second),
   root |-> NewAddr(left_right.h)]

\* current_node->right = new Node{new_element, new_priority, first, second}
NewRight(left_right, current_node, new_element, new_priority) ==
  [Treap_NewNode(left_right.h, new_element, new_priority,
                 left_right.first, left_right.second)
     EXCEPT ![current_node].right = NewAddr(left_right.h)]

\* current_node->left = new Node{new_element, new_priority, first, second}
NewLeft(left_right, current_node, new_element, new_priority) ==
  [Treap_NewNode(left_right.h, new_element, new_priority,
                 left_right.first, left_right.second)
     EXCEPT ![current_node].left = NewAddr(left_right.h)]

\* the while (true) loop of insert, at current_node
Treap_insert_while(h, current_node, new_element, new_priority) ==
  IF cmp_data(h[current_node].data, new_element)
  THEN IF h[current_node].right # NULL
       THEN IF cmp_priority(h[h[current_node].right].priority, new_priority)
            THEN NewRight(split(h, h[current_node].right, new_element),
                          current_node, new_element, new_priority)
            ELSE Treap_insert_while(h, h[current_node].right, new_element, new_priority)
       ELSE NewRight(NoNodes(h), current_node, new_element, new_priority)
  ELSE IF h[current_node].left # NULL
       THEN IF cmp_priority(h[h[current_node].left].priority, new_priority)
            THEN NewLeft(split(h, h[current_node].left, new_element),
                         current_node, new_element, new_priority)
            ELSE Treap_insert_while(h, h[current_node].left, new_element, new_priority)
       ELSE NewLeft(NoNodes(h), current_node, new_element, new_priority)

\* void Treap::insert(const T &new_element, const P &new_priority)
Treap_insert(h, rt, new_element, new_priority) ==
  IF rt = NULL \/ cmp_priority(h[rt].priority, new_priority)
  THEN NewRoot(split(h, rt, new_element), new_element, new_priority)
  ELSE [heap |-> Treap_insert_while(h, rt, new_element, new_priority), root |-> rt]

\* std::max
Max(a, b) == IF a < b THEN b ELSE a

\* size_t Treap::get_binary_tree_depth_rec(const shared_ptr<Node> &) const
get_binary_tree_depth_rec(h, current_node) ==
  IF current_node = NULL
  THEN 0
  ELSE Max(get_binary_tree_depth_rec(h, h[current_node].left),
           get_binary_tree_depth_rec(h, h[current_node].right)) + 1

\* size_t Treap::get_depth() const
Treap_get_depth(h, rt) == get_binary_tree_depth_rec(h, rt)

\* Treap::Treap()
TreapInit ==
  /\ heap = [a \in Addr |-> TreapFree]
  /\ EmptyTree
  /\ NoTable

\* insert(<<k, n>>, p) as the n-th insert call
TreapInsert(k, p) ==
  /\ CanInsert
  /\ heap' = Treap_insert(heap, root, <<k, n_insert + 1>>, p).heap
  /\ root' = Treap_insert(heap, root, <<k, n_insert + 1>>, p).root
  /\ n_insert' = n_insert + 1
  /\ inserted' = inserted \cup {<<k, n_insert + 1>>}
  /\ UNCHANGED <<element_count, n_removed, destroyed, table_vars>>

\* get_depth reads the treap and changes nothing
TreapGetDepth ==
  /\ Treap_get_depth(heap, root) \in 0..MaxInserts
  /\ UNCHANGED vars

TreapNext ==
  \/ \E k \in Keys, p \in Priorities : TreapInsert(k, p)
  \/ TreapGetDepth

SpecTreap == TreapInit /\ [][TreapNext]_vars

\* seq is sorted non-decreasingly by data
SortedByData(seq) ==
  \A i, j \in 1..Len(seq) : i < j => ~cmp_data(seq[j], seq[i])

\* no node's priority compares less than a child's
HeapOrder(h, rt) ==
  \A n \in Reach(h, rt) :
    /\ h[n].left # NULL => ~cmp_priority(h[n].priority, h[h[n].left].priority)
    /\ h[n].right # NULL => ~cmp_priority(h[n].priority, h[h[n].right].priority)

\* the two trees s of a split by key: the elements less than key and the
\* elements greater than or equal to key
SplitGives(s, key) ==
  /\ Range(InOrder(s.h, s.first)) = {e \in inserted : cmp_data(e, key)}
  /\ Range(InOrder(s.h, s.second)) = {e \in inserted : ~cmp_data(e, key)}
  /\ Len(InOrder(s.h, s.first)) + Len(InOrder(s.h, s.second)) = n_insert

SplitExact(key) == SplitGives(split(heap, root, key), key)

\* C22: after any sequence of insert calls the in-order traversal of the
\* treap is sorted non-decreasingly by data and holds exactly the inserted
\* elements, no node's priority compares less than a child's priority, and
\* split(t, key) returns a left tree of exactly the elements less than key
\* and a right tree of exactly the elements greater than or equal to key.
TreapInvariant ==
  /\ SortedByData(InOrder(heap, root))
  /\ Range(InOrder(heap, root)) = inserted
  /\ Len(InOrder(heap, root)) = n_insert
  /\ HeapOrder(heap, root)
  /\ \A k \in 1..(MaxKey + 1) : SplitExact(<<k, 0>>)

\* a treap holding two elements of equal key whose root, with a subtree on
\* either side, was made by a later insert from the two trees of a split
TreapWitness ==
  /\ n_insert = MaxInserts
  /\ \E a, b \in inserted : a # b /\ a[1] = b[1]
  /\ root # NULL
  /\ heap[root].data[2] > 2
  /\ heap[root].left # NULL
  /\ heap[root].right # NULL

====
